---- MODULE Spec2Model ----
(***************************************************************************)
(* Model of the Regia desktop launcher, frontend/src-tauri/src/lib.rs.     *)
(*                                                                         *)
(* run() is one builder chain: five plugin registrations, the registration *)
(* of a setup callback, run(context) and expect(..) on its result.  The    *)
(* setup callback looks up the window labelled "main", unwraps it, sets    *)
(* its title, discards the result of set_title with .ok() and returns      *)
(* Ok(()).  Every line of the chain is one action; pc is the position in   *)
(* run().  What the host library decides (whether the build succeeds,      *)
(* whether set_title succeeds, which events the running application gets)  *)
(* is a nondeterministic choice.                                           *)
(***************************************************************************)
EXTENDS Naturals, Sequences, FiniteSets, TLC

VARIABLES
    pc,            \* position in run()
    plugins,       \* Builder's plugin store: the capabilities registered, in order
    setupHook,     \* TRUE once .setup(closure) has stored the callback
    configWindows, \* static configuration: declared window label -> configured title
    windows,       \* live windows: label -> current title
    gotWindow,     \* result of app.get_webview_window("main"): "unset", "Some", "None"
    titleResult,   \* result of window.set_title(..): "unset", "Ok", "Err"
    setupResult,   \* what the setup callback returned: "unset", "Ok"
    runResult,     \* what .run(context) returned: "unset", "Ok", "Err"
    stderr,        \* panic messages written by the process
    log,           \* log records written by run() and its callback
    companion,     \* companion-process state as far as run() drives it
    shutdownHook,  \* TRUE iff run() registered a hook that terminates a child
    uiReached,     \* capabilities the UI layer has invoked successfully
    uiDenied,      \* capabilities the UI layer asked for and was refused
    events,        \* number of UI events handled by the event loop
    steps          \* history: the lines of run() executed so far, in order

vars == <<pc, plugins, setupHook, configWindows, windows, gotWindow, titleResult,
          setupResult, runResult, stderr, log, companion, shutdownHook,
          uiReached, uiDenied, events, steps>>

----------------------------------------------------------------------------
(* Bounds and fixed data *)

\* UI events handled while the application runs.
MaxEvents == 3

\* The literal passed to set_title.
ProductTitle == "Regia - Document Intelligence"

\* Titles the static configuration may give a window.
Titles == {ProductTitle, "Regia", ""}

\* Window labels the static configuration may declare.
Labels == {"main", "splash"}

\* Capability names the UI layer may ask for.
Capabilities == {"shell", "http", "process", "os", "notification", "fs", "dialog"}

\* The message of .expect(..).
ExpectMsg == "error while running Regia"

\* The message of Option::unwrap() on None.
UnwrapMsg == "called Option::unwrap() on a None value"

CompanionStates == {"NotStarted", "Starting", "Running", "ShuttingDown", "Stopped", "Failed"}

Range(s) == {s[i] : i \in 1..Len(s)}

NoWindows == [l \in {} |-> ""]

\* Every static configuration: a set of declared labels, each with a title.
Configurations == UNION {[D -> Titles] : D \in SUBSET Labels}

----------------------------------------------------------------------------
(* The state after process start, before run() executes its first line. *)

Init ==
    /\ pc = "plugin_shell"
    /\ plugins = <<>>
    /\ setupHook = FALSE
    /\ configWindows \in Configurations
    /\ windows = NoWindows
    /\ gotWindow = "unset"
    /\ titleResult = "unset"
    /\ setupResult = "unset"
    /\ runResult = "unset"
    /\ stderr = <<>>
    /\ log = <<>>
    /\ companion = "NotStarted"
    /\ shutdownHook = FALSE
    /\ uiReached = {}
    /\ uiDenied = {}
    /\ events = 0
    /\ steps = <<>>

----------------------------------------------------------------------------
(* Builder chain: .plugin(..) x 5 and .setup(..) *)

\* Builder::plugin(p): store p after the plugins already registered.
Plugin(name, from, to) ==
    /\ pc = from
    /\ plugins' = Append(plugins, name)
    /\ steps' = Append(steps, name)
    /\ pc' = to
    /\ UNCHANGED <<setupHook, configWindows, windows, gotWindow, titleResult,
                   setupResult, runResult, stderr, log, companion, shutdownHook,
                   uiReached, uiDenied, events>>

PluginShell == Plugin("shell", "plugin_shell", "plugin_http")

PluginHttp == Plugin("http", "plugin_http", "plugin_process")

PluginProcess_Os == Plugin("os", "plugin_process", "plugin_os")

PluginProcess == Plugin("process", "plugin_process", "plugin_os")

PluginOs == Plugin("os", "plugin_os", "plugin_notification")

PluginNotification_Fs ==
    /\ pc = "plugin_notification"
    /\ plugins' = plugins \o <<"notification", "fs">>
    /\ steps' = Append(steps, "notification")
    /\ pc' = "setup"
    /\ UNCHANGED <<setupHook, configWindows, windows, gotWindow, titleResult,
                   setupResult, runResult, stderr, log, companion, shutdownHook,
                   uiReached, uiDenied, events>>

PluginNotification == Plugin("notification", "plugin_notification", "setup")

\* .setup(|app| ..): the closure is stored, not run.
SetupRegister ==
    /\ pc = "setup"
    /\ setupHook' = TRUE
    /\ pc' = "run"
    /\ UNCHANGED <<plugins, configWindows, windows, gotWindow, titleResult,
                   setupResult, runResult, stderr, log, companion, shutdownHook,
                   uiReached, uiDenied, events, steps>>

----------------------------------------------------------------------------
(* .run(context): build, then the setup callback, then the event loop *)

\* The build either fails, and run returns Err before any window exists, or
\* succeeds: the configured windows are created and the setup callback is called.
RunBuild ==
    /\ pc = "run"
    /\ \E ok \in BOOLEAN :
         IF ok
         THEN /\ windows' = configWindows
              /\ pc' = "get_window"
              /\ UNCHANGED runResult
         ELSE /\ runResult' = "Err"
              /\ pc' = "expect"
              /\ UNCHANGED windows
    /\ UNCHANGED <<plugins, setupHook, configWindows, gotWindow, titleResult,
                   setupResult, stderr, log, companion, shutdownHook,
                   uiReached, uiDenied, events, steps>>

\* app.get_webview_window(label): Some(window) iff a live window has the label.
GetWebviewWindow(label) == IF label \in DOMAIN windows THEN "Some" ELSE "None"

\* A panic: the message goes to stderr and the process ends, its windows with it.
Panic(msg) ==
    /\ stderr' = Append(stderr, msg)
    /\ windows' = NoWindows
    /\ pc' = "panicked"

GetWindow_NoUnwrap ==
    /\ pc = "get_window"
    /\ setupHook
    /\ gotWindow' = GetWebviewWindow("main")
    /\ steps' = Append(steps, "get_window")
    /\ pc' = IF GetWebviewWindow("main") = "Some" THEN "set_title" ELSE "setup_return"
    /\ UNCHANGED <<plugins, setupHook, configWindows, windows, titleResult,
                   setupResult, runResult, stderr, log, companion, shutdownHook,
                   uiReached, uiDenied, events>>

\* let window = app.get_webview_window("main").unwrap();
GetWindow ==
    /\ pc = "get_window"
    /\ setupHook
    /\ gotWindow' = GetWebviewWindow("main")
    /\ steps' = Append(steps, "get_window")
    /\ IF GetWebviewWindow("main") = "Some"
       THEN /\ pc' = "set_title"
            /\ UNCHANGED <<windows, stderr>>
       ELSE Panic(UnwrapMsg)
    /\ UNCHANGED <<plugins, setupHook, configWindows, titleResult,
                   setupResult, runResult, log, companion, shutdownHook,
                   uiReached, uiDenied, events>>

SetTitle_WrongTitle ==
    /\ pc = "set_title"
    /\ \E r \in {"Ok", "Err"} :
         /\ titleResult' = r
         /\ windows' = IF r = "Ok"
                       THEN [windows EXCEPT !["main"] = "Regia"]
                       ELSE windows
    /\ steps' = Append(steps, "set_title")
    /\ pc' = "setup_return"
    /\ UNCHANGED <<plugins, setupHook, configWindows, gotWindow,
                   setupResult, runResult, stderr, log, companion, shutdownHook,
                   uiReached, uiDenied, events>>

SetTitle_Propagate ==
    /\ pc = "set_title"
    /\ steps' = Append(steps, "set_title")
    /\ \E r \in {"Ok", "Err"} :
         /\ titleResult' = r
         /\ IF r = "Ok"
            THEN /\ windows' = [windows EXCEPT !["main"] = ProductTitle]
                 /\ pc' = "setup_return"
                 /\ UNCHANGED <<setupResult, stderr>>
            ELSE /\ setupResult' = "Err"
                 /\ Panic("Failed to setup app")
    /\ UNCHANGED <<plugins, setupHook, configWindows, gotWindow,
                   runResult, log, companion, shutdownHook,
                   uiReached, uiDenied, events>>

\* window.set_title("Regia - Document Intelligence").ok();
\* Ok: the window carries the literal.  Err: the title is as it was.  Either
\* way .ok() turns the Result into an Option that is dropped: nothing is
\* logged, nothing is returned.
SetTitle ==
    /\ pc = "set_title"
    /\ \E r \in {"Ok", "Err"} :
         /\ titleResult' = r
         /\ windows' = IF r = "Ok"
                       THEN [windows EXCEPT !["main"] = ProductTitle]
                       ELSE windows
    /\ steps' = Append(steps, "set_title")
    /\ pc' = "setup_return"
    /\ UNCHANGED <<plugins, setupHook, configWindows, gotWindow,
                   setupResult, runResult, stderr, log, companion, shutdownHook,
                   uiReached, uiDenied, events>>

SetupReturn_Spawn ==
    /\ pc = "setup_return"
    /\ setupResult' = "Ok"
    /\ companion' = "Starting"
    /\ shutdownHook' = TRUE
    /\ steps' = Append(steps, "running")
    /\ pc' = "running"
    /\ UNCHANGED <<plugins, setupHook, configWindows, windows, gotWindow,
                   titleResult, runResult, stderr, log,
                   uiReached, uiDenied, events>>

\* Ok(())  -- the callback returns and the event loop starts.
SetupReturn ==
    /\ pc = "setup_return"
    /\ setupResult' = "Ok"
    /\ steps' = Append(steps, "running")
    /\ pc' = "running"
    /\ UNCHANGED <<plugins, setupHook, configWindows, windows, gotWindow,
                   titleResult, runResult, stderr, log, companion, shutdownHook,
                   uiReached, uiDenied, events>>

\* The UI layer asks for a capability: served iff its plugin is registered.
Invoke ==
    /\ pc = "running"
    /\ events < MaxEvents
    /\ events' = events + 1
    /\ \E c \in Capabilities :
         IF c \in Range(plugins)
         THEN /\ uiReached' = uiReached \cup {c}
              /\ UNCHANGED uiDenied
         ELSE /\ uiDenied' = uiDenied \cup {c}
              /\ UNCHANGED uiReached
    /\ UNCHANGED <<pc, plugins, setupHook, configWindows, windows, gotWindow,
                   titleResult, setupResult, runResult, stderr, log, companion,
                   shutdownHook, steps>>

\* The user closes the application's windows: the event loop ends.
CloseWindow ==
    /\ pc = "running"
    /\ windows' = NoWindows
    /\ runResult' = "Ok"
    /\ pc' = "expect"
    /\ UNCHANGED <<plugins, setupHook, configWindows, gotWindow, titleResult,
                   setupResult, stderr, log, companion, shutdownHook,
                   uiReached, uiDenied, events, steps>>

Expect_Silent ==
    /\ pc = "expect"
    /\ pc' = "exited"
    /\ UNCHANGED <<plugins, setupHook, configWindows, windows, gotWindow,
                   titleResult, setupResult, runResult, stderr, log, companion,
                   shutdownHook, uiReached, uiDenied, events, steps>>

\* .expect("error while running Regia");
Expect ==
    /\ pc = "expect"
    /\ IF runResult = "Err"
       THEN Panic(ExpectMsg)
       ELSE /\ pc' = "exited"
            /\ UNCHANGED <<windows, stderr>>
    /\ UNCHANGED <<plugins, setupHook, configWindows, gotWindow,
                   titleResult, setupResult, runResult, log, companion,
                   shutdownHook, uiReached, uiDenied, events, steps>>

----------------------------------------------------------------------------

Next ==
    \/ PluginShell
    \/ PluginHttp
    \/ PluginProcess
    \/ PluginOs
    \/ PluginNotification
    \/ SetupRegister
    \/ RunBuild
    \/ GetWindow
    \/ SetTitle
    \/ SetupReturn
    \/ Invoke
    \/ CloseWindow
    \/ Expect

Spec == Init /\ [][Next]_vars

TypeOK ==
    /\ pc \in {"plugin_shell", "plugin_http", "plugin_process", "plugin_os",
               "plugin_notification", "setup", "run", "get_window", "set_title",
               "setup_return", "running", "expect", "exited", "panicked"}
    /\ plugins \in Seq(Capabilities)
    /\ setupHook \in BOOLEAN
    /\ configWindows \in Configurations
    /\ DOMAIN windows \subseteq Labels
    /\ gotWindow \in {"unset", "Some", "None"}
    /\ titleResult \in {"unset", "Ok", "Err"}
    /\ setupResult \in {"unset", "Ok", "Err"}
    /\ runResult \in {"unset", "Ok", "Err"}
    /\ companion \in CompanionStates
    /\ shutdownHook \in BOOLEAN
    /\ uiReached \subseteq Capabilities
    /\ uiDenied \subseteq Capabilities
    /\ events \in 0..MaxEvents

----------------------------------------------------------------------------
(* Properties *)

\* The five capabilities run() registers, in the order of its builder chain.
RegisteredPlugins == <<"shell", "http", "process", "os", "notification">>

\* The lines of run() a successful startup executes, in order.
StartupOrder == RegisteredPlugins \o <<"get_window", "set_title", "running">>

IsPrefix(s, t) == Len(s) <= Len(t) /\ s = SubSeq(t, 1, Len(s))

BuildPhase == {"plugin_shell", "plugin_http", "plugin_process", "plugin_os",
               "plugin_notification"}

\* C1 (as stated): whenever the setup callback has returned Ok and the
\* application is running, the main window's title is the product literal,
\* also when set_title reported an error.
TitleAfterSetupAlways ==
    pc = "running" => windows["main"] = ProductTitle

\* C1 (amended): whenever the setup callback has returned Ok, the application
\* is running and set_title returned Ok, the main window's title is the
\* product literal.
TitleAfterSuccessfulSetTitle ==
    (pc = "running" /\ setupResult = "Ok" /\ titleResult = "Ok")
        => windows["main"] = ProductTitle

\* C1 witness: set_title succeeded on a window configured with another title.
TitleWasReplaced ==
    /\ pc = "running"
    /\ titleResult = "Ok"
    /\ configWindows["main"] # ProductTitle
    /\ windows["main"] = ProductTitle

\* C2: when the static configuration declares no window labelled "main",
\* the lookup in the setup callback yields nothing, the unwrap ends the
\* process with a panic, set_title is never called and the application never
\* reaches its running state.
MissingMainWindowIsFatal ==
    "main" \notin DOMAIN configWindows =>
        /\ titleResult = "unset"
        /\ setupResult = "unset"
        /\ "set_title" \notin Range(steps)
        /\ "running" \notin Range(steps)
        /\ pc \notin {"set_title", "setup_return", "running"}
        /\ gotWindow # "Some"
        /\ gotWindow = "None" => (pc = "panicked" /\ stderr = <<UnwrapMsg>>)

\* C2 witness: the lookup failed and the process panicked.
MissingMainWindowPanicked ==
    /\ "main" \notin DOMAIN configWindows
    /\ gotWindow = "None"
    /\ pc = "panicked"

\* C3: whenever the main window exists and set_title has been called, with
\* either result, the process has not panicked, nothing was reported as an
\* error, the setup callback returns Ok and the application goes on to its
\* running state.
SetTitleFailureIsNonFatal ==
    (gotWindow = "Some" /\ titleResult # "unset") =>
        /\ pc # "panicked"
        /\ stderr = <<>>
        /\ setupResult \in {"unset", "Ok"}
        /\ runResult # "Err"
        /\ pc # "setup_return" => (setupResult = "Ok" /\ "running" \in Range(steps))

\* C3 witness: set_title failed and the application is running.
RunningAfterFailedSetTitle ==
    /\ titleResult = "Err"
    /\ setupResult = "Ok"
    /\ pc = "running"

\* C6: once the build phase is over the registered capabilities are exactly
\* shell, http, process, os and notification, in every later state, and the
\* UI layer has reached no capability outside them.
CapabilitySetWriteOnce ==
    pc \notin BuildPhase =>
        /\ Len(plugins) = 5
        /\ Range(plugins) = Range(RegisteredPlugins)
        /\ uiReached \subseteq Range(RegisteredPlugins)

\* C6 witness: the application ran and exited, the UI layer having used a
\* registered capability and having been refused an unregistered one.
CapabilitiesUsedAndRefused ==
    /\ pc = "exited"
    /\ uiReached # {}
    /\ uiDenied # {}

\* C7: a fatal startup error (no main window, or an error returned by run)
\* never leaves a window and never reaches the running state, and once it
\* has been handled the process has panicked with a message on stderr; the
\* process exits quietly only when run returned Ok.
FatalErrorsAreLoud ==
    /\ (gotWindow = "None" \/ runResult = "Err") =>
           /\ windows = NoWindows
           /\ pc \in {"expect", "panicked"}
           /\ "running" \notin Range(steps)
           /\ pc = "panicked" => Len(stderr) > 0
    /\ gotWindow = "None" => pc = "panicked"
    /\ pc = "exited" => (runResult = "Ok" /\ gotWindow = "Some")

\* C7 witness: run returned an error and expect reported it.
RunErrorReported ==
    /\ runResult = "Err"
    /\ pc = "panicked"
    /\ stderr = <<ExpectMsg>>

\* C8: whenever set_title failed and the setup callback has returned, a log
\* record of the failure exists.
SetTitleFailureIsLogged ==
    (titleResult = "Err" /\ setupResult = "Ok") => log # <<>>

\* C9: the lines of run() execute in one fixed order: shell, http, process,
\* os, notification, then the window lookup, then set_title, then the
\* running state; a startup that reaches the running state has executed all
\* of them.
StartupOrderIsFixed ==
    /\ IsPrefix(steps, StartupOrder)
    /\ Len(steps) >= 5 => plugins = RegisteredPlugins
    /\ gotWindow # "unset" => IsPrefix(RegisteredPlugins \o <<"get_window">>, steps)
    /\ titleResult # "unset" => gotWindow = "Some"
    /\ pc = "running" => (steps = StartupOrder /\ titleResult # "unset")

\* C9 witness: a startup that reached the running state.
StartupCompleted ==
    /\ pc = "running"
    /\ steps = StartupOrder

\* C10: in every state of the launcher the companion process is NotStarted
\* and no shutdown hook terminating a child is registered.
CompanionNeverStarted ==
    /\ companion = "NotStarted"
    /\ ~shutdownHook

\* C10 witness: the application ran, its window was closed and it exited.
ExitedAfterRunning ==
    /\ pc = "exited"
    /\ setupResult = "Ok"
    /\ runResult = "Ok"
    /\ windows = NoWindows

====
